---- MODULE Spec2Model ----
(***************************************************************************)
(* The interactive prompt of src/utils/tasks.mjs (askQuestion): the        *)
(* free-text loop and the option prompt with its selection index, filter,  *)
(* filtered option list, question scroll offset and rendered frame, driven *)
(* by real key events and by the commands injected on the input channel.   *)
(*                                                                         *)
(* Strings are sequences of one-character strings, so that toLowerCase,    *)
(* includes and startsWith are computed.  An option is referred to by its  *)
(* position in `options` (object identity: options.indexOf(o)); the        *)
(* selection index and the scroll offset are 0-based as in the source.     *)
(***************************************************************************)
EXTENDS Integers, Sequences, FiniteSets, TLC

VARIABLES
  argOptions,           \* the `options` argument as passed by the caller
  qLen,                 \* question.split('\n').length
  options,              \* options after line 36 and line 52
  questionRows,         \* line 55
  scrollbar,            \* line 56
  selectedOptionIndex,  \* line 58
  questionIndex,        \* line 59
  filter,               \* line 60
  filteredOptions,      \* line 61: references (positions) into options
  line,                 \* rl.line, the edit buffer of the readline interface
  frame,                \* the last frame written to the terminal
  answer,               \* line 40: the last line read by the free-text loop
  draws,                \* number of times the free-text loop drew the question
  response,             \* the value askQuestion returns
  pc,                   \* "free" | "prompt" | "done"
  downs,                \* history: injected `down` commands delivered so far
  onlyDowns,            \* history: nothing but injected `down` was delivered
  last,                 \* history: the kind of the last event delivered
  later,                \* a later askQuestion call reads the same input stream
  fpc,                  \* askFileInput: where the call stands
  call,                 \* askFileInput: number of the current call
  fileExists,           \* the scratch file is on disk
  fileContent,          \* what the scratch file holds
  handlers,             \* per process event, the calls whose cleanup listens
  result,               \* askFileInput: its local `result`
  proc,                 \* the process: running, or how it ended
  rounds,               \* history: menu answers given in the current call
  cleanupRuns,          \* history: runs of the current call's cleanup
  task,                 \* history: the last answer given to a prompt of the call
  stdoutRows,           \* line 55: process.stdout.rows
  optionCount,          \* line 55: options.length
  key,                  \* history: the name of the last key event
  before,               \* history: the prompt's state before the last key event
  mpc,                  \* main: where the program stands
  available,            \* select: the tasks whose isAvailable() holds
  taskName,             \* select: the task the prompt returned
  prompts,              \* history: prompts started by the program
  exitCode,             \* the exit code of the process, once it has ended
  wrote,                \* history: whether the last event wrote a frame
  resolves,             \* history: what called resolve(), in order
  gitUsername,          \* preCommitHook: what git.getUsername() returned
  branchName,           \* preCommitHook: what git.getCurrentBranch() returned
  hook,                 \* preCommitHook: not run, returned, or thrown
  originDefault,        \* git config --local origin.default ("" when unset)
  writing,              \* git config --replace-all processes still running
  gpc,                  \* getDefaultBranch: where each call stands
  got,                  \* getDefaultBranch: what each call returned
  hasSetDefaultBranch,  \* git.mjs line 7
  timer,                \* the timeout of line 130: off, armed or fired
  rpc,                  \* on_release: where the run stands
  snapshot,             \* on_release: the open milestones fetched at line 150
  mstate,               \* the repository: open, closed or deleted, by milestone
  issueIn,              \* the repository: where the issue of a milestone is
  nextLevels,           \* on_release: the change levels `next` has a milestone for
  ri,                   \* on_release: position in milestonesToDelete
  closeFailed,          \* history: milestones whose closing request failed
  wpc,                  \* on_pull_request_merge: where the run stands
  headRef,              \* pullRequest.head.ref
  releases,             \* the repository: its releases, oldest first
  target,               \* onRelease: position of `release` in the releases
  runs,                 \* history: runs of on_pull_request_merge started
  created,              \* history: releases created by the runs
  published             \* history: releases published by the runs

vars == <<argOptions, qLen, options, questionRows, scrollbar,
          selectedOptionIndex, questionIndex, filter, filteredOptions, line,
          frame, answer, draws, response, pc, downs, onlyDowns, last, later,
          fpc, call, fileExists, fileContent, handlers, result, proc, rounds,
          cleanupRuns, task, stdoutRows, optionCount, key, before, mpc,
          available, taskName, prompts, exitCode, wrote, resolves,
          gitUsername, branchName, hook, originDefault, writing, gpc, got,
          hasSetDefaultBranch, timer, rpc, snapshot, mstate, issueIn,
          nextLevels, ri, closeFailed, wpc, headRef, releases, target, runs,
          created, published>>

layoutVars == <<stdoutRows, optionCount>>

keyVars == <<key, before>>

mainVars == <<mpc, available, taskName, prompts, exitCode>>

eventVars == <<wrote, resolves>>

hookVars == <<gitUsername, branchName, hook>>

branchVars == <<originDefault, writing, gpc, got, hasSetDefaultBranch, timer>>

releaseVars == <<rpc, snapshot, mstate, issueIn, nextLevels, ri, closeFailed>>

mergeVars == <<wpc, headRef, releases, target, runs, created, published>>

workflowVars == <<hookVars, branchVars, releaseVars, mergeVars>>

moreVars == <<eventVars, workflowVars>>

restVars == <<layoutVars, keyVars, mainVars, moreVars>>

fileVars == <<fpc, call, fileExists, fileContent, handlers, result, proc,
              rounds, cleanupRuns, task>>

----------------------------------------------------------------------------
(* Bounds and input pools *)

MaxOptions == 3
MaxLine == 1
QuestionLines == 5
TermRows == 10
MaxDraws == 3
MaxDowns == 4

Max(a, b) == IF a >= b THEN a ELSE b
Min(a, b) == IF a <= b THEN a ELSE b

Apple  == <<"A", "p", "p", "l", "e">>
Banana == <<"B", "a", "n", "a", "n", "a">>
Grape  == <<"G", "r", "a", "p", "e">>
Apex   == <<"a", "p", "e", "x">>

\* An entry of the options argument: a bare string or a {name, value} object.
StringEntry(s) == [kind |-> "string", name |-> s, value |-> s]
ObjectEntry(n, v) == [kind |-> "object", name |-> n, value |-> v]

EntryPool ==
  { StringEntry(<<>>), StringEntry(Apple), StringEntry(Banana),
    StringEntry(Grape), ObjectEntry(Apex, <<"X">>) }

\* Option arguments: lists of distinct pool entries, the empty string included.
OptionArgs ==
  { s \in UNION { [1..n -> EntryPool] : n \in 0..MaxOptions } :
      \A i, j \in DOMAIN s : i # j => s[i] # s[j] }

TypeChars == {"a", "P"}
Lines == UNION { [1..n -> TypeChars] : n \in 0..MaxLine }

\* The strings the test driver hands to set_line
SetLineArgs == { <<"a", "P">>, <<"P", "a">> }

KeyNames == {"return", "up", "down", "pageup", "pagedown", "escape", "tab"}

\* line 124: the character U+25BA that marks a command on the input channel
Sentinel == ">"

(* A chunk of input data as data.split(':') sees it.  The third field of a
   set_line command is a string of the edit buffer, that of a keypress command
   a key name. *)
DataPool ==
  { <<Sentinel, "keypress", name>> : name \in KeyNames }
    \cup { <<Sentinel, "set_line", s>> : s \in SetLineArgs }
    \cup { <<Sentinel, "submit">>,
           <<Sentinel, "refresh">>, <<"x", "submit">>,
           <<"x", "keypress", "down">> }

----------------------------------------------------------------------------
(* String methods *)

Lower(c) ==
  CASE c = "A" -> "a"
    [] c = "B" -> "b"
    [] c = "G" -> "g"
    [] c = "P" -> "p"
    [] c = "X" -> "x"
    [] OTHER -> c

ToLowerCase(s) == [i \in 1..Len(s) |-> Lower(s[i])]

Includes(s, f) ==
  \E i \in 0..(Len(s) - Len(f)) : SubSeq(s, i + 1, i + Len(f)) = f

StartsWith(s, f) ==
  Len(f) <= Len(s) /\ SubSeq(s, 1, Len(f)) = f

----------------------------------------------------------------------------
(* askQuestion: parameter formatting, lines 36-56 *)

TruthyAll(e) == TRUE

\* options.filter(option => option): '' is falsy, every object is truthy
Truthy(e) == e.kind = "object" \/ e.name # <<>>

Normalise(e) ==
  IF e.kind = "string" THEN [name |-> e.name, value |-> e.name]
  ELSE [name |-> e.name, value |-> e.value]

FormatOptions(args) ==
  LET kept == SelectSeq(args, Truthy)
  IN  [i \in 1..Len(kept) |-> Normalise(kept[i])]

QuestionRowsNoFloor(rows, n) == rows - Min(12, n + 4)

QuestionRows(rows, n) == Max(3, rows - Min(12, n + 4))

Scrollbar(len, rows) == len > rows

----------------------------------------------------------------------------
(* The filter branch of eventListener, lines 83-93 *)

MatchesCaseSensitive(opts, f, a) == Includes(opts[a].name, f)

\* line 86: option.name.toLowerCase().includes(filter)
Matches(opts, f, a) == Includes(ToLowerCase(opts[a].name), f)

ComparatorIndexOnly(opts, f, a, b) == a - b

\* lines 87-91: the comparator handed to sort; a and b are option references
Comparator(opts, f, a, b) ==
  IF StartsWith(ToLowerCase(opts[a].name), f) THEN -1
  ELSE IF StartsWith(ToLowerCase(opts[b].name), f) THEN 1
  ELSE a - b

Reverse(s) == [i \in 1..Len(s) |-> s[Len(s) + 1 - i]]

(* Array.prototype.sort as the runtime of this program (Node.js, V8) computes
   it for arrays shorter than 64 elements: the leading run is counted (and
   reversed when it is strictly descending), then the remaining elements are
   placed by binary insertion.  Each comparison is comparefn(later, earlier). *)
RECURSIVE ExtendRun(_, _, _, _, _)
ExtendRun(opts, f, arr, descending, idx) ==
  IF idx > Len(arr) THEN idx - 1
  ELSE LET order == Comparator(opts, f, arr[idx], arr[idx - 1])
       IN  IF (descending /\ order >= 0) \/ (~descending /\ order < 0)
           THEN idx - 1
           ELSE ExtendRun(opts, f, arr, descending, idx + 1)

CountAndMakeRun(opts, f, arr) ==
  IF Len(arr) = 1 THEN [arr |-> arr, run |-> 1]
  ELSE LET descending == Comparator(opts, f, arr[2], arr[1]) < 0
           run == ExtendRun(opts, f, arr, descending, 3)
       IN  [arr |-> IF descending
                    THEN Reverse(SubSeq(arr, 1, run)) \o SubSeq(arr, run + 1, Len(arr))
                    ELSE arr,
            run |-> run]

\* left and right are 0-based offsets as in the engine; arr is 1-based
RECURSIVE InsertionPoint(_, _, _, _, _, _)
InsertionPoint(opts, f, arr, pivot, left, right) ==
  IF left >= right THEN left
  ELSE LET mid == left + ((right - left) \div 2)
           order == Comparator(opts, f, pivot, arr[mid + 1])
       IN  IF order < 0
           THEN InsertionPoint(opts, f, arr, pivot, left, mid)
           ELSE InsertionPoint(opts, f, arr, pivot, mid + 1, right)

RECURSIVE BinaryInsertionSort(_, _, _, _)
BinaryInsertionSort(opts, f, arr, start) ==
  IF start >= Len(arr) THEN arr
  ELSE LET pivot == arr[start + 1]
           left == InsertionPoint(opts, f, arr, pivot, 0, start)
           moved == SubSeq(arr, 1, left) \o <<pivot>>
                      \o SubSeq(arr, left + 1, start)
                      \o SubSeq(arr, start + 2, Len(arr))
       IN  BinaryInsertionSort(opts, f, moved, start + 1)

ArraySort(opts, f, arr) ==
  IF Len(arr) < 2 THEN arr
  ELSE LET r == CountAndMakeRun(opts, f, arr)
       IN  IF r.run < Len(arr)
           THEN BinaryInsertionSort(opts, f, r.arr, r.run)
           ELSE r.arr

AllOptions(opts) == [i \in 1..Len(opts) |-> i]

FilterOptionsSortsAll(opts, f) ==
  LET found == ArraySort(opts, f,
                 SelectSeq(AllOptions(opts), LAMBDA a : Matches(opts, f, a)))
  IN  IF Len(found) = 0 THEN AllOptions(opts) ELSE found

FilterOptionsNoFallback(opts, f) ==
  IF f = <<>> THEN AllOptions(opts)
  ELSE ArraySort(opts, f,
         SelectSeq(AllOptions(opts), LAMBDA a : Matches(opts, f, a)))

\* lines 84-92: the new value of filteredOptions for filter text f
FilterOptions(opts, f) ==
  LET found == IF f = <<>> THEN AllOptions(opts)
               ELSE ArraySort(opts, f,
                      SelectSeq(AllOptions(opts), LAMBDA a : Matches(opts, f, a)))
  IN  IF Len(found) = 0 THEN AllOptions(opts) ELSE found

----------------------------------------------------------------------------
(* eventListener, lines 62-95: the navigation branches *)

upClamped(sel, n) == Max(0, sel - 1)

\* lines 66-70
up(sel, n) == IF sel = 0 THEN n - 1 ELSE Max(0, sel - 1)

downClamped(sel, n) == Min(n - 1, sel + 1)

downUnchecked(sel, n) == sel + 1

\* lines 72-76
down(sel, n) == IF sel = n - 1 THEN 0 ELSE Min(n - 1, sel + 1)

\* line 78
pageup(qi) == Max(0, qi - 1)

pagedownUnclamped(qi, len, rows) == qi + 1

\* line 80
pagedown(qi, len, rows) == Min(len - rows, qi + 1)

escapeLineKept(name, ln) == ln

\* line 82: rl.line as the filter branch reads it
escapeLine(name, ln) == IF name = "escape" THEN <<>> ELSE ln

firstIfChanged(sel, old, new) == IF new = old THEN sel ELSE 0

\* line 93: the selection after the list has been recomputed
first(sel, old, new) == 0

(* eventListener(_, { name }) called while rl.line is ln: the values of
   selectedOptionIndex, questionIndex, filter, filteredOptions and rl.line
   it leaves behind. *)
eventListener(name, ln) ==
  LET n == Len(filteredOptions)
      keep == [sel |-> selectedOptionIndex, qi |-> questionIndex,
               filter |-> filter, filtered |-> filteredOptions, line |-> ln]
  IN  IF name = "return" THEN keep
      ELSE IF name = "up" THEN [keep EXCEPT !.sel = up(selectedOptionIndex, n)]
      ELSE IF name = "down" THEN [keep EXCEPT !.sel = down(selectedOptionIndex, n)]
      ELSE IF scrollbar /\ name = "pageup"
        THEN [keep EXCEPT !.qi = pageup(questionIndex)]
      ELSE IF scrollbar /\ name = "pagedown"
        THEN [keep EXCEPT !.qi = pagedown(questionIndex, qLen, questionRows)]
      ELSE LET l == escapeLine(name, ln)
               f == ToLowerCase(l)
               new == FilterOptions(options, f)
           IN  [sel |-> first(selectedOptionIndex, filteredOptions, new),
                qi |-> questionIndex, filter |-> f, filtered |-> new,
                line |-> l]

----------------------------------------------------------------------------
(* getPrompt, lines 101-110: the frame as the parts the reader sees *)

\* Array.prototype.slice(from, to) with 0 <= from, on a 1-based sequence
Slice(s, from, to) == SubSeq(s, from + 1, Min(to, Len(s)))

\* an option window that starts at the first option whatever is selected
getPromptTop(len, rows, sb, qi, f, opts, filtered, sel) ==
  LET styledOptions == [i \in 1..Len(filtered) |->
                          [marked |-> (i - 1 = sel), name |-> opts[filtered[i]].name]]
  IN  [question   |-> Slice([i \in 1..len |-> i], qi, qi + rows),
       scrollHint |-> sb,
       filterHint |-> f,
       rows       |-> Slice(styledOptions, 0, 8)]

getPrompt(len, rows, sb, qi, f, opts, filtered, sel) ==
  LET styledOptions == [i \in 1..Len(filtered) |->
                          [marked |-> (i - 1 = sel), name |-> opts[filtered[i]].name]]
      visibleIndex == IF sel > 3 THEN sel - 4 ELSE 0
  IN  [question   |-> Slice([i \in 1..len |-> i], qi, qi + rows),
       scrollHint |-> sb,
       filterHint |-> f,
       rows       |-> Slice(styledOptions, visibleIndex, visibleIndex + 8)]

\* lines 43-44: the free-text loop clears the screen and writes the question
QuestionFrame(len) ==
  [question |-> [i \in 1..len |-> i], scrollHint |-> FALSE,
   filterHint |-> <<>>, rows |-> <<>>]

----------------------------------------------------------------------------
(* Resolution, lines 118, 135 and 140 *)

ResolveUnfiltered(opts, filtered, sel) == opts[sel + 1].value

Resolve(opts, filtered, sel) == opts[filtered[sel + 1]].value

AcceptAny(a) == TRUE

\* line 46: if (answer) break
Accept(a) == a # <<>>

----------------------------------------------------------------------------
(* The process events askFileInput listens to, lines 162-165 *)

Signals == {"SIGINT", "SIGQUIT", "SIGTERM"}

Events == {"beforeExit"} \cup Signals

\* no key event has been delivered
NoKey ==
  /\ key = "none"
  /\ before = [sel |-> 0, qi |-> 0, filter |-> <<>>, filtered |-> <<>>]

\* the program around the prompt is not looked at
NoMain ==
  /\ mpc = "idle"
  /\ available = {}
  /\ taskName = "none"
  /\ prompts = 0
  /\ exitCode = "none"

\* no event of a prompt is followed, and no workflow is running
NoEvent == wrote = FALSE /\ resolves = <<>>

NoHook == gitUsername = <<>> /\ branchName = <<>> /\ hook = "idle"

MaxCallers == 3

Callers == 1..MaxCallers

NoBranch ==
  /\ originDefault = ""
  /\ writing = 0
  /\ gpc = [c \in Callers |-> "idle"]
  /\ got = [c \in Callers |-> "none"]
  /\ hasSetDefaultBranch = FALSE
  /\ timer = "off"

NoRelease ==
  /\ rpc = "idle"
  /\ snapshot = <<>>
  /\ mstate = <<>>
  /\ issueIn = <<>>
  /\ nextLevels = {}
  /\ ri = 0
  /\ closeFailed = {}

NoMerge ==
  /\ wpc = "idle"
  /\ headRef = <<>>
  /\ releases = <<>>
  /\ target = 0
  /\ runs = 0
  /\ created = 0
  /\ published = 0

NoWorkflow == NoHook /\ NoBranch /\ NoRelease /\ NoMerge

NoMore == NoEvent /\ NoWorkflow

\* no askFileInput call has been made: no scratch file, no listener
NoFileCall ==
  /\ fpc = "idle"
  /\ call = 0
  /\ fileExists = FALSE
  /\ fileContent = "none"
  /\ handlers = [e \in Events |-> {}]
  /\ result = "undefined"
  /\ proc = "running"
  /\ rounds = 0
  /\ cleanupRuns = 0
  /\ task = "none"

----------------------------------------------------------------------------
(* Initial state: askQuestion(question, options) up to its first await *)

NoValue == <<>>

InitTerminal(term, len, args) ==
    LET opts == FormatOptions(args)
        rows == QuestionRows(term, Len(opts))
        sb   == Scrollbar(len, rows)
    IN  /\ argOptions = args
        /\ qLen = len
        /\ options = opts
        /\ selectedOptionIndex = 0
        /\ questionIndex = 0
        /\ filter = <<>>
        /\ line = <<>>
        /\ answer = NoValue
        /\ response = NoValue
        /\ downs = 0
        /\ onlyDowns = TRUE
        /\ last = "none"
        /\ later = FALSE
        /\ NoFileCall
        /\ stdoutRows = term
        /\ optionCount = Len(opts)
        /\ NoKey
        /\ NoMain
        /\ NoMore
        /\ IF Len(opts) = 0
           THEN /\ pc = "free"
                /\ questionRows = 0
                /\ scrollbar = FALSE
                /\ filteredOptions = <<>>
                /\ draws = 1
                /\ frame = QuestionFrame(len)
           ELSE /\ pc = "prompt"
                /\ questionRows = rows
                /\ scrollbar = sb
                /\ filteredOptions = AllOptions(opts)
                /\ draws = 0
                /\ frame = getPrompt(len, rows, sb, 0, <<>>, opts, AllOptions(opts), 0)

\* the terminal of the prompts followed key by key has TermRows rows
InitPrompt(len, args) == InitTerminal(TermRows, len, args)

Init == \E args \in OptionArgs : InitPrompt(QuestionLines, args)

----------------------------------------------------------------------------
(* Steps of the option prompt *)

fixed == <<argOptions, qLen, options, questionRows, scrollbar, later, fileVars,
           restVars>>

\* render(), line 111, after the state was set to st
Transition(st) ==
  /\ selectedOptionIndex' = st.sel
  /\ questionIndex' = st.qi
  /\ filter' = st.filter
  /\ filteredOptions' = st.filtered
  /\ line' = st.line
  /\ frame' = getPrompt(qLen, questionRows, scrollbar, st.qi, st.filter,
                        options, st.filtered, st.sel)

Forget == onlyDowns' = FALSE /\ downs' = 0

(* What the key handler of the readline interface, registered at line 97
   before the listeners of lines 98 and 113, leaves in rl.line for a named
   key: return takes the line; up and down walk a history that is empty for a
   fresh interface; pageup, pagedown and a lone escape are not bound. *)
ttyWrite(name, ln) == IF name = "return" THEN <<>> ELSE ln

(* A real key that edits the buffer (a character, backspace, delete, a paste)
   or has no binding (tab): readline has already left l in rl.line when the
   keypress listeners of lines 98 and 113 run. *)
KeyEdit(l) ==
  /\ pc = "prompt"
  /\ Transition(eventListener("edit", l))
  /\ Forget
  /\ last' = "key"
  /\ UNCHANGED <<fixed, answer, draws, response, pc>>

\* A real up, down, pageup, pagedown or escape key: readline leaves rl.line alone.
KeyPress(name) ==
  /\ pc = "prompt"
  /\ name \in KeyNames \ {"return", "tab"}
  /\ Transition(eventListener(name, ttyWrite(name, line)))
  /\ Forget
  /\ last' = "key"
  /\ UNCHANGED <<fixed, answer, draws, response, pc>>

(* The real return key: readline takes the line and settles rl.question, the
   keypress listeners run, then the continuation of lines 114-119 resolves. *)
KeyReturn ==
  /\ pc = "prompt"
  /\ Transition(eventListener("return", ttyWrite("return", line)))
  /\ response' = Resolve(options, filteredOptions, selectedOptionIndex)
  /\ pc' = "done"
  /\ last' = "key"
  /\ UNCHANGED <<fixed, answer, draws, downs, onlyDowns>>

InjectKeypressNoRender(name) ==
  /\ pc = "prompt"
  /\ name \in KeyNames
  /\ LET st == eventListener(name, line)
     IN  /\ selectedOptionIndex' = st.sel
         /\ questionIndex' = st.qi
         /\ filter' = st.filter
         /\ filteredOptions' = st.filtered
         /\ line' = st.line
  /\ IF name = "down" /\ onlyDowns /\ downs < MaxDowns
     THEN downs' = downs + 1 /\ UNCHANGED onlyDowns
     ELSE Forget
  /\ last' = "keypress"
  /\ UNCHANGED <<fixed, frame, answer, draws, response, pc>>

\* lines 126-128: the injected command keypress:<name>
InjectKeypress(name) ==
  /\ pc = "prompt"
  /\ name \in KeyNames
  /\ Transition(eventListener(name, line))
  /\ IF name = "down" /\ onlyDowns /\ downs < MaxDowns
     THEN downs' = downs + 1 /\ UNCHANGED onlyDowns
     ELSE Forget
  /\ last' = "keypress"
  /\ UNCHANGED <<fixed, answer, draws, response, pc>>

\* lines 129-130: the injected command set_line:<s>
InjectSetLine(s) ==
  /\ pc = "prompt"
  /\ line' = s
  /\ Forget
  /\ last' = "set_line"
  /\ UNCHANGED <<fixed, selectedOptionIndex, questionIndex, filter,
                 filteredOptions, frame, answer, draws, response, pc>>

\* lines 131-135: the injected command submit
InjectSubmit ==
  /\ pc = "prompt"
  /\ response' = Resolve(options, filteredOptions, selectedOptionIndex)
  /\ pc' = "done"
  /\ last' = "submit"
  /\ UNCHANGED <<fixed, selectedOptionIndex, questionIndex, filter,
                 filteredOptions, line, frame, answer, draws, downs, onlyDowns>>

\* data.startsWith(the sentinel followed by a colon), line 124
HasSentinel(d) == Len(d) >= 2 /\ d[1] = Sentinel

CommandUnguarded(d) == IF Len(d) >= 2 THEN d[2] ELSE "none"

\* lines 124-125: the command a chunk of data names, "none" when it is not one
Command(d) == IF HasSentinel(d) THEN d[2] ELSE "none"

\* the listener of line 122 falls through lines 126-136 without a branch
Ignore ==
  /\ pc = "prompt"
  /\ Forget
  /\ last' = "ignored"
  /\ UNCHANGED <<fixed, selectedOptionIndex, questionIndex, filter,
                 filteredOptions, line, frame, answer, draws, response, pc>>

\* lines 122-137: the listener for data on the input stream
OnData(d) ==
  \/ Command(d) = "keypress" /\ InjectKeypress(d[3])
  \/ Command(d) = "set_line" /\ InjectSetLine(d[3])
  \/ Command(d) = "submit" /\ InjectSubmit
  \/ Command(d) \notin {"keypress", "set_line", "submit"} /\ Ignore

----------------------------------------------------------------------------
(* The free-text loop, lines 39-49: one line s read by rl.question *)

FreeLine(s) ==
  /\ pc = "free"
  /\ answer' = s
  /\ last' = "line"
  /\ IF Accept(s)
     THEN /\ pc' = "done"
          /\ response' = s
          /\ UNCHANGED <<draws, frame>>
     ELSE /\ draws < MaxDraws
          /\ draws' = draws + 1
          /\ frame' = QuestionFrame(qLen)
          /\ UNCHANGED <<pc, response>>
  /\ UNCHANGED <<fixed, selectedOptionIndex, questionIndex, filter,
                 filteredOptions, line, downs, onlyDowns>>

Next ==
  \/ \E l \in Lines : KeyEdit(l)
  \/ \E name \in KeyNames : KeyPress(name)
  \/ KeyReturn
  \/ \E d \in DataPool : OnData(d)
  \/ \E s \in Lines : FreeLine(s)

Spec == Init /\ [][Next]_vars

----------------------------------------------------------------------------
(* After the call has returned.  Lines 115-117 and 132-134 detach the two
   keypress listeners and close the interface; the data listener of line 122
   stays attached to the input stream, which a later askQuestion call (the
   next round of a menu loop) resumes. *)

\* a later call opens an interface on the same input stream
StartLater ==
  /\ pc = "done"
  /\ ~later
  /\ later' = TRUE
  /\ UNCHANGED <<argOptions, qLen, options, questionRows, scrollbar,
                 selectedOptionIndex, questionIndex, filter, filteredOptions,
                 line, frame, answer, draws, response, pc, downs, onlyDowns,
                 last, fileVars, restVars>>

\* a key while the later call is open: the listeners of lines 98 and 113 are off
LateKey ==
  /\ pc = "done"
  /\ later
  /\ last' = "key"
  /\ UNCHANGED <<fixed, selectedOptionIndex, questionIndex, filter,
                 filteredOptions, line, frame, answer, draws, response, pc,
                 downs, onlyDowns>>

(* A chunk of data while the later call is open, as the listener of the
   returned call handles it: a keypress runs eventListener and render on the
   closure of the returned call, set_line assigns the line of its closed
   interface, and submit repeats lines 132-135, none of which has an effect
   the second time. *)
LateData(d) ==
  /\ pc = "done"
  /\ later
  /\ Len(options) > 0
  /\ \/ /\ Command(d) = "keypress"
        /\ Transition(eventListener(d[3], line))
     \/ /\ Command(d) = "set_line"
        /\ line' = d[3]
        /\ UNCHANGED <<selectedOptionIndex, questionIndex, filter,
                       filteredOptions, frame>>
     \/ /\ Command(d) \notin {"keypress", "set_line"}
        /\ UNCHANGED <<selectedOptionIndex, questionIndex, filter,
                       filteredOptions, line, frame>>
  /\ last' = "late"
  /\ UNCHANGED <<fixed, answer, draws, response, pc, downs, onlyDowns>>

\* the first call is driven through the test channel, as the test driver does
NextLate ==
  \/ \E d \in DataPool : OnData(d)
  \/ StartLater
  \/ LateKey
  \/ \E d \in DataPool : LateData(d)

SpecLate == Init /\ [][NextLate]_vars

----------------------------------------------------------------------------
(* askFileInput, lines 150-209.  Its two prompts are askQuestion calls with
   fixed options; each is taken by the value it returns, one of the values of
   its options.  The write of line 151 and the registration of lines 162-165
   are the step that opens a call; signals are delivered from the first menu
   prompt on. *)

MaxCalls == 2
MaxRounds == 3

Contents == {"template", "edited"}

MenuValues == {"openEditor", "continue", "abort"}

YesNo == {"Yes", "No"}

promptVars == <<argOptions, qLen, options, questionRows, scrollbar,
                selectedOptionIndex, questionIndex, filter, filteredOptions,
                line, frame, answer, draws, response, pc, downs, onlyDowns,
                last, later>>

\* fs.unlinkSync, line 155: removes the file, throws when there is none
unlinkSync(exists) == [exists |-> FALSE, threw |-> ~exists]

cleanupKeepsSigquit(c, exists, hs) ==
  LET rm == IF exists THEN unlinkSync(exists)
                      ELSE [exists |-> FALSE, threw |-> FALSE]
  IN  [exists |-> rm.exists, threw |-> rm.threw,
       handlers |-> IF rm.threw THEN hs
                    ELSE [e \in Events |->
                            IF e = "SIGQUIT" THEN hs[e] ELSE hs[e] \ {c}]]

cleanupKeepsFile(c, exists, hs) ==
  [exists |-> exists, threw |-> FALSE,
   handlers |-> [e \in Events |-> hs[e] \ {c}]]

\* lines 154-160: the cleanup closure of call c
cleanup(c, exists, hs) ==
  LET rm == IF exists THEN unlinkSync(exists)
                      ELSE [exists |-> FALSE, threw |-> FALSE]
  IN  [exists |-> rm.exists, threw |-> rm.threw,
       handlers |-> IF rm.threw THEN hs
                    ELSE [e \in Events |-> hs[e] \ {c}]]

\* the listeners of one event run in the order of their registration
RECURSIVE Emit(_, _, _)
Emit(cs, exists, hs) ==
  IF cs = {}
  THEN [exists |-> exists, threw |-> FALSE, handlers |-> hs]
  ELSE LET c == CHOOSE x \in cs : \A y \in cs : x <= y
           r == cleanup(c, exists, hs)
       IN  IF r.threw THEN r ELSE Emit(cs \ {c}, r.exists, r.handlers)

unmodifiedNever(r) == FALSE

unmodifiedAlways(r) == TRUE

\* line 188: result === content
unmodified(r) == r = "template"

readOrForget(exists, content) == IF exists THEN content ELSE "undefined"

\* lines 182-187: the result of continue; a missing file is written anew
readOrRecreate(exists, content) == IF exists THEN content ELSE "template"

InitFile ==
  /\ argOptions = <<>>
  /\ qLen = QuestionLines
  /\ options = <<>>
  /\ questionRows = 0
  /\ scrollbar = FALSE
  /\ selectedOptionIndex = 0
  /\ questionIndex = 0
  /\ filter = <<>>
  /\ filteredOptions = <<>>
  /\ line = <<>>
  /\ frame = QuestionFrame(qLen)
  /\ answer = <<>>
  /\ draws = 0
  /\ response = NoValue
  /\ pc = "none"
  /\ downs = 0
  /\ onlyDowns = TRUE
  /\ last = "none"
  /\ later = FALSE
  /\ NoFileCall
  /\ stdoutRows = TermRows
  /\ optionCount = 0
  /\ NoKey
  /\ NoMain
  /\ NoMore

\* lines 150-165: the template is written and the cleanup registered
Call ==
  /\ proc = "running"
  /\ fpc \in {"idle", "returned"}
  /\ call < MaxCalls
  /\ call' = call + 1
  /\ fileExists' = TRUE
  /\ fileContent' = "template"
  /\ handlers' = [e \in Events |-> handlers[e] \cup {call + 1}]
  /\ fpc' = "menu"
  /\ result' = "undefined"
  /\ rounds' = 0
  /\ cleanupRuns' = 0
  /\ task' = "none"
  /\ UNCHANGED <<promptVars, restVars, proc>>

\* cleanup() of the current call, then break with result res (or the throw)
Leave(exists, res) ==
  LET r == cleanup(call, exists, handlers)
  IN  /\ fileExists' = r.exists
      /\ fileContent' = IF r.exists THEN fileContent ELSE "none"
      /\ handlers' = r.handlers
      /\ cleanupRuns' = cleanupRuns + 1
      /\ fpc' = IF r.threw THEN "thrown" ELSE "returned"
      /\ result' = IF r.threw THEN result ELSE res

\* lines 169-205: one answer to the menu prompt
MenuChoice(t) ==
  /\ proc = "running"
  /\ fpc = "menu"
  /\ rounds < MaxRounds
  /\ rounds' = rounds + 1
  /\ task' = t
  /\ \/ /\ t = "openEditor"
        /\ UNCHANGED <<fpc, fileExists, fileContent, handlers, result,
                       cleanupRuns>>
     \/ /\ t = "continue"
        /\ LET res == readOrRecreate(fileExists, fileContent)
           IN  IF unmodified(res)
               THEN /\ fpc' = "confirm"
                    /\ fileExists' = TRUE
                    /\ fileContent' = res
                    /\ result' = res
                    /\ UNCHANGED <<handlers, cleanupRuns>>
               ELSE Leave(TRUE, res)
     \/ /\ t = "abort"
        /\ Leave(fileExists, "false")
  /\ UNCHANGED <<promptVars, restVars, call, proc>>

\* lines 189-193: one answer to the confirmation prompt
Confirm(yesno) ==
  /\ proc = "running"
  /\ fpc = "confirm"
  /\ task' = yesno
  /\ IF yesno = "Yes"
     THEN Leave(fileExists, result)
     ELSE /\ fpc' = "menu"
          /\ UNCHANGED <<fileExists, fileContent, handlers, result,
                         cleanupRuns>>
  /\ UNCHANGED <<promptVars, restVars, call, proc, rounds>>

(* An exception inside the loop: cmd.execSync of line 177 throws when the
   editor command fails, fs.promises.readFile of line 186 rejects.  Nothing
   catches it in askFileInput. *)
Throw(at) ==
  /\ proc = "running"
  /\ fpc = "menu"
  /\ rounds < MaxRounds
  /\ \/ at = "execSync" /\ task' = "openEditor"
     \/ at = "readFile" /\ fileExists /\ task' = "continue"
  /\ rounds' = rounds + 1
  /\ fpc' = "thrown"
  /\ UNCHANGED <<promptVars, restVars, call, fileExists, fileContent, handlers, result,
                 proc, cleanupRuns>>

\* the user saves the file from the editor while a prompt waits
ExternalEdit(c) ==
  /\ proc = "running"
  /\ fpc \in {"menu", "confirm"}
  /\ fileExists
  /\ c # fileContent
  /\ fileContent' = c
  /\ UNCHANGED <<promptVars, restVars, fpc, call, fileExists, handlers, result, proc,
                 rounds, cleanupRuns, task>>

\* the user deletes the file while a prompt waits
ExternalDelete ==
  /\ proc = "running"
  /\ fpc \in {"menu", "confirm"}
  /\ fileExists
  /\ fileExists' = FALSE
  /\ fileContent' = "none"
  /\ UNCHANGED <<promptVars, restVars, fpc, call, handlers, result, proc, rounds,
                 cleanupRuns, task>>

(* A signal e.  With a listener registered (lines 163-165) the listeners run
   and the process goes on; without one the signal ends the process. *)
Signal(e) ==
  /\ proc = "running"
  /\ IF handlers[e] = {}
     THEN /\ proc' = "killed"
          /\ UNCHANGED <<fileExists, fileContent, handlers, cleanupRuns>>
     ELSE LET r == Emit(handlers[e], fileExists, handlers)
          IN  /\ fileExists' = r.exists
              /\ fileContent' = IF r.exists THEN fileContent ELSE "none"
              /\ handlers' = r.handlers
              /\ cleanupRuns' = cleanupRuns
                                  + (IF call \in handlers[e] THEN 1 ELSE 0)
              /\ proc' = IF r.threw THEN "crashed" ELSE "running"
  /\ UNCHANGED <<promptVars, restVars, fpc, call, result, rounds, task>>

\* the event loop has run empty: 'beforeExit' (line 162), then the exit
BeforeExit ==
  /\ proc = "running"
  /\ fpc \in {"idle", "returned", "thrown"}
  /\ LET r == Emit(handlers["beforeExit"], fileExists, handlers)
     IN  /\ fileExists' = r.exists
         /\ fileContent' = IF r.exists THEN fileContent ELSE "none"
         /\ handlers' = r.handlers
         /\ cleanupRuns' = cleanupRuns
                             + (IF call \in handlers["beforeExit"] THEN 1 ELSE 0)
         /\ proc' = IF r.threw THEN "crashed" ELSE "exited"
  /\ UNCHANGED <<promptVars, restVars, fpc, call, result, rounds, task>>

\* the exception reaches the top level: the process ends without 'beforeExit'
Crash ==
  /\ proc = "running"
  /\ fpc = "thrown"
  /\ proc' = "crashed"
  /\ UNCHANGED <<promptVars, restVars, fpc, call, fileExists, fileContent, handlers,
                 result, rounds, cleanupRuns, task>>

NextFile ==
  \/ Call
  \/ \E t \in MenuValues : MenuChoice(t)
  \/ \E yesno \in YesNo : Confirm(yesno)
  \/ \E at \in {"execSync", "readFile"} : Throw(at)
  \/ \E c \in Contents : ExternalEdit(c)
  \/ ExternalDelete
  \/ \E e \in Signals : Signal(e)
  \/ BeforeExit
  \/ Crash

SpecFile == InitFile /\ [][NextFile]_vars

----------------------------------------------------------------------------
(* The layout of lines 55-56 on its own, for any terminal height and any
   number of options *)

MaxRows == 18
MaxCount == 9

\* no option prompt is open and none has been
NoPrompt ==
  /\ argOptions = <<>>
  /\ qLen = QuestionLines
  /\ options = <<>>
  /\ selectedOptionIndex = 0
  /\ questionIndex = 0
  /\ filter = <<>>
  /\ filteredOptions = <<>>
  /\ line = <<>>
  /\ frame = QuestionFrame(qLen)
  /\ answer = <<>>
  /\ draws = 0
  /\ response = NoValue
  /\ downs = 0
  /\ onlyDowns = TRUE
  /\ last = "none"
  /\ later = FALSE

InitLayout ==
  /\ NoPrompt
  /\ NoFileCall
  /\ NoKey
  /\ NoMain
  /\ NoMore
  /\ pc = "layout"
  /\ questionRows = 0
  /\ scrollbar = FALSE
  /\ stdoutRows \in 3..MaxRows
  /\ optionCount \in 0..MaxCount

\* lines 55-56
Layout ==
  /\ pc = "layout"
  /\ questionRows' = QuestionRows(stdoutRows, optionCount)
  /\ scrollbar' = Scrollbar(qLen, questionRows')
  /\ pc' = "laid"
  /\ UNCHANGED <<argOptions, qLen, options, selectedOptionIndex,
                 questionIndex, filter, filteredOptions, line, frame, answer,
                 draws, response, downs, onlyDowns, last, later, fileVars,
                 restVars>>

NextLayout == Layout

SpecLayout == InitLayout /\ [][NextLayout]_vars

----------------------------------------------------------------------------
(* The program around the prompt: main of kanban.mjs calls select, select
   asks for a task and runs it, and a task other than exit calls select
   again when it is done.  A prompt is taken by the value it returns. *)

MaxPrompts == 3

\* utils/tasks.mjs, lines 5-13
Tasks == {"commitAndPushChanges", "createRelease", "exit", "installWorkflows",
          "openPullRequest", "showBacklog", "showIssue", "showProgress",
          "stopWorkingOnIssue"}

OutcomesAlike(t) == {"select", "returned", "thrown"}

(* How the default function of task t can end: exit has an empty body; the
   others end by calling select again, by returning, or by an error. *)
Outcomes(t) ==
  IF t = "exit" THEN {"returned"} ELSE {"select", "returned", "thrown"}

InitMain ==
  /\ NoPrompt
  /\ NoFileCall
  /\ NoKey
  /\ NoMore
  /\ pc = "none"
  /\ questionRows = 0
  /\ scrollbar = FALSE
  /\ stdoutRows = TermRows
  /\ optionCount = 0
  /\ mpc = "select"
  /\ available = {}
  /\ taskName = "none"
  /\ prompts = 0
  /\ exitCode = "none"

\* select.mjs, lines 12-27: the tasks on offer, then the prompt
Select(others) ==
  /\ mpc = "select"
  /\ prompts < MaxPrompts
  /\ available' = others \cup {"exit"}
  /\ prompts' = prompts + 1
  /\ mpc' = "asking"
  /\ UNCHANGED <<promptVars, fileVars, layoutVars, keyVars, moreVars, taskName,
                 exitCode>>

\* select.mjs, line 27: the prompt returns the value of an option on offer
Answer(t) ==
  /\ mpc = "asking"
  /\ t \in available
  /\ taskName' = t
  /\ available' = {}
  /\ mpc' = "task"
  /\ UNCHANGED <<promptVars, fileVars, layoutVars, keyVars, moreVars, prompts, exitCode>>

\* select.mjs, line 30: the default function of the task runs
RunTask ==
  /\ mpc = "task"
  /\ mpc' \in Outcomes(taskName)
  /\ \/ UNCHANGED prompts
     \/ taskName # "exit" /\ prompts < MaxPrompts /\ prompts' = prompts + 1
  /\ UNCHANGED <<promptVars, fileVars, layoutVars, keyVars, moreVars, available,
                 taskName, exitCode>>

\* nothing is pending any more: the process ends, by an error with code 1
ProcessEnd ==
  /\ mpc \in {"returned", "thrown"}
  /\ exitCode' = IF mpc = "returned" THEN "0" ELSE "1"
  /\ mpc' = "ended"
  /\ UNCHANGED <<promptVars, fileVars, layoutVars, keyVars, moreVars, available,
                 taskName, prompts>>

NextMain ==
  \/ \E others \in SUBSET (Tasks \ {"exit"}) : Select(others)
  \/ \E t \in Tasks : Answer(t)
  \/ RunTask
  \/ ProcessEnd

SpecMain == InitMain /\ [][NextMain]_vars

\* the steps of the program itself are taken once they can be
SpecMainFair == SpecMain /\ WF_vars(RunTask) /\ WF_vars(ProcessEnd)

----------------------------------------------------------------------------
(* The option prompt under key events alone, each step keeping the name of
   the key and the state the key found *)

\* a question of one line needs no scrollbar, whatever the options
QuestionLengths == {1, QuestionLines}

InitKeys ==
  \E len \in QuestionLengths, args \in OptionArgs :
    InitPrompt(len, args) /\ pc = "prompt"

Found ==
  [sel |-> selectedOptionIndex, qi |-> questionIndex, filter |-> filter,
   filtered |-> filteredOptions]

\* the keypress event with key name `name`, the interface's line then being ln
Keypress(name, ln) ==
  /\ pc = "prompt"
  /\ Transition(eventListener(name, ln))
  /\ key' = name
  /\ before' = Found
  /\ UNCHANGED <<argOptions, qLen, options, questionRows, scrollbar, later,
                 fileVars, layoutVars, mainVars, moreVars, answer, draws, response, pc,
                 downs, onlyDowns, last>>

\* a key that edits the line: a character typed, or the last one deleted
TypeKey(l) ==
  /\ \/ Len(l) = Len(line) + 1 /\ SubSeq(l, 1, Len(line)) = line
     \/ Len(line) = Len(l) + 1 /\ SubSeq(line, 1, Len(l)) = l
  /\ Keypress("edit", l)

\* a named key that is not return
NamedKey(name) ==
  /\ name \in KeyNames \ {"return"}
  /\ Keypress(name, ttyWrite(name, line))

NextKeys ==
  \/ \E l \in Lines : TypeKey(l)
  \/ \E name \in KeyNames : NamedKey(name)

SpecKeys == InitKeys /\ [][NextKeys]_vars

----------------------------------------------------------------------------
(* The listeners of one option prompt, from its first frame to the events
   that reach it after it has returned, each event keeping whether it wrote a
   frame and each call of resolve() what made it *)

MaxResolves == 2

\* a promise that a later resolve() settles again
resolveLast(by) ==
  /\ Len(resolves) < MaxResolves
  /\ resolves' = Append(resolves, by)
  /\ response' = Resolve(options, filteredOptions, selectedOptionIndex)
  /\ pc' = "done"

(* lines 115-118 and 132-135: the listeners are taken off, the interface is
   closed and resolve() is called; the promise of line 100 keeps the value of
   the first call *)
resolve(by) ==
  /\ Len(resolves) < MaxResolves
  /\ resolves' = Append(resolves, by)
  /\ response' = IF resolves = <<>>
                 THEN Resolve(options, filteredOptions, selectedOptionIndex)
                 ELSE response
  /\ pc' = "done"

\* the prompt is open, or it has returned and a later one reads the input
Listening == pc = "prompt" \/ (pc = "done" /\ later)

stillVars == <<argOptions, qLen, options, questionRows, scrollbar, later,
               answer, draws, downs, onlyDowns, fileVars, layoutVars, keyVars,
               mainVars, workflowVars>>

\* a keypress event while the listeners of lines 98 and 113 are attached
KeypressAttached(name, ln) ==
  /\ Transition(eventListener(name, ln))
  /\ wrote' = TRUE
  /\ IF name = "return"
     THEN resolve("return")
     ELSE UNCHANGED <<response, pc, resolves>>

(* A real key: readline's own handler first (line 97), then eventListener
   (line 98), then render (line 113); for return the continuation of lines
   114-119 follows.  Once the prompt has returned both listeners are off. *)
KeyEvent(name, ln) ==
  /\ Listening
  /\ name \in KeyNames \cup {"edit"}
  /\ name = "edit" \/ ln = ttyWrite(name, line)
  /\ IF pc = "prompt"
     THEN KeypressAttached(name, ln)
     ELSE /\ wrote' = FALSE
          /\ UNCHANGED <<selectedOptionIndex, questionIndex, filter,
                         filteredOptions, line, frame, response, pc, resolves>>
  /\ last' = "key"
  /\ UNCHANGED stillVars

(* lines 122-137: a chunk of data on the input stream; the listener stays on
   the stream when the prompt returns *)
DataEvent(d) ==
  /\ Listening
  /\ \/ /\ Command(d) = "keypress"
        /\ Transition(eventListener(d[3], line))
        /\ wrote' = TRUE
        /\ last' = "keypress"
        /\ UNCHANGED <<response, pc, resolves>>
     \/ /\ Command(d) = "set_line"
        /\ line' = d[3]
        /\ wrote' = FALSE
        /\ last' = "set_line"
        /\ UNCHANGED <<selectedOptionIndex, questionIndex, filter,
                       filteredOptions, frame, response, pc, resolves>>
     \/ /\ Command(d) = "submit"
        /\ resolve("submit")
        /\ wrote' = FALSE
        /\ last' = "submit"
        /\ UNCHANGED <<selectedOptionIndex, questionIndex, filter,
                       filteredOptions, line, frame>>
     \/ /\ Command(d) \notin {"keypress", "set_line", "submit"}
        /\ wrote' = FALSE
        /\ last' = "ignored"
        /\ UNCHANGED <<selectedOptionIndex, questionIndex, filter,
                       filteredOptions, line, frame, response, pc, resolves>>
  /\ UNCHANGED stillVars

\* the options of the calls followed here: the first n of one menu
Menu ==
  <<StringEntry(Banana), StringEntry(Apple), ObjectEntry(Apex, <<"X">>),
    StringEntry(Grape)>>

InitEvents ==
  \E n \in 1..Min(MaxOptions, Len(Menu)) :
    InitPrompt(QuestionLines, SubSeq(Menu, 1, n))

NextEvents ==
  \/ \E name \in KeyNames \cup {"edit"}, ln \in Lines : KeyEvent(name, ln)
  \/ \E d \in DataPool : DataEvent(d)
  \/ StartLater

SpecEvents == InitEvents /\ [][NextEvents]_vars

----------------------------------------------------------------------------
(* The option prompt with more options than the window of eight shows, on
   terminals from the smallest to the largest followed *)

MaxWindow == 10

Alphabet == <<"b", "c", "d", "e", "f", "g", "h", "i", "j", "k", "l", "m">>

\* n options with distinct names, every other one containing an "a"
ManyOptions(n) ==
  [i \in 1..Min(n, Len(Alphabet)) |->
      StringEntry(<<IF i % 2 = 1 THEN "a" ELSE "p", Alphabet[i]>>)]

TerminalRows == {3, TermRows, MaxRows}

InitWindow ==
  \E term \in TerminalRows, len \in QuestionLengths, n \in 1..MaxWindow :
    InitTerminal(term, len, ManyOptions(n))

SpecWindow == InitWindow /\ [][NextKeys]_vars

----------------------------------------------------------------------------
(* The pre-commit hook *)

MaxParts == 4

Dash == "-"

Major   == <<"m", "a", "j", "o", "r">>
Minor   == <<"m", "i", "n", "o", "r">>
Patch   == <<"p", "a", "t", "c", "h">>
Release == <<"r", "e", "l", "e", "a", "s", "e">>
Undefined == <<"u", "n", "d", "e", "f", "i", "n", "e", "d">>

Digits == {"0", "1", "2", "3", "4", "5", "6", "7", "8", "9"}

\* String.prototype.split('-')
RECURSIVE Split(_)
Split(s) ==
  IF \A i \in 1..Len(s) : s[i] # Dash
  THEN <<s>>
  ELSE LET i == CHOOSE k \in 1..Len(s) :
                  s[k] = Dash /\ \A m \in 1..(k - 1) : s[m] # Dash
       IN  <<SubSeq(s, 1, i - 1)>> \o Split(SubSeq(s, i + 1, Len(s)))

\* Array.prototype.join('-')
RECURSIVE Join(_)
Join(parts) ==
  IF Len(parts) = 0 THEN <<>>
  ELSE IF Len(parts) = 1 THEN parts[1]
  ELSE parts[1] \o <<Dash>> \o Join(Tail(parts))

\* a test for a digit anywhere in the part
IsNumberUnanchored(s) == \E i \in 1..Len(s) : s[i] \in Digits

\* issueNumber.match(/^\d+$/), line 28
IsNumber(s) == Len(s) >= 1 /\ \A i \in 1..Len(s) : s[i] \in Digits

\* git.getUsername(), git.mjs lines 45-48: the configured name, or 'undefined'
getUsername(configured) == IF configured = <<>> THEN Undefined ELSE configured

\* lines 15-42: "thrown" for each throw, "returned" when the end is reached
preCommitHook(name, branch) ==
  LET branchParts == Split(branch)
      n           == Len(branchParts)
      issueNumber == branchParts[n]
      changeLevel == branchParts[n - 1]
      username    == Join(SubSeq(branchParts, 1, n - 2))
  IN  IF n < 3 THEN "thrown"
      ELSE IF issueNumber # Release /\ ~IsNumber(issueNumber) THEN "thrown"
      ELSE IF changeLevel \notin {Major, Minor, Patch} THEN "thrown"
      ELSE IF ToLowerCase(username) # ToLowerCase(name) THEN "thrown"
      ELSE "returned"

\* the names git config may hold: none, a plain one, one with a dash
ConfiguredNames == { <<>>, <<"a", "b">>, <<"A", "b", "-", "a", "b">> }

\* the parts branch names are made of
PartPool ==
  { <<>>, <<"a", "b">>, <<"A", "b">>, Major, Patch, Release, <<"1", "2">>,
    <<"1", "x">> }

BranchNames ==
  { Join(ps) : ps \in UNION { [1..n -> PartPool] : n \in 1..MaxParts } }

cliVars == <<promptVars, fileVars, layoutVars, keyVars, mainVars, eventVars>>

\* nothing of the command line interface is running
NoCli ==
  /\ NoPrompt
  /\ NoFileCall
  /\ NoKey
  /\ NoMain
  /\ NoEvent
  /\ pc = "none"
  /\ questionRows = 0
  /\ scrollbar = FALSE
  /\ stdoutRows = TermRows
  /\ optionCount = 0

InitHook ==
  /\ NoCli
  /\ NoBranch
  /\ NoRelease
  /\ NoMerge
  /\ gitUsername \in { getUsername(c) : c \in ConfiguredNames }
  /\ branchName \in BranchNames
  /\ hook = "ready"

\* one run of the hook before a commit
PreCommit ==
  /\ hook = "ready"
  /\ hook' = preCommitHook(gitUsername, branchName)
  /\ UNCHANGED <<cliVars, gitUsername, branchName, branchVars, releaseVars,
                 mergeVars>>

NextHook == PreCommit

SpecHook == InitHook /\ [][NextHook]_vars

----------------------------------------------------------------------------
(* getDefaultBranch, git.mjs lines 115-137, called by up to MaxCallers
   callers of one process.  Every exec starts a child process; the steps
   below are the completions of these processes. *)

\* the branch `git remote show origin` names as HEAD branch
RemoteHead == "main"

InitBranch ==
  /\ NoCli
  /\ NoHook
  /\ NoRelease
  /\ NoMerge
  /\ originDefault \in {"", RemoteHead}
  /\ writing = 0
  /\ gpc = [c \in Callers |-> "idle"]
  /\ got = [c \in Callers |-> "none"]
  /\ hasSetDefaultBranch = FALSE
  /\ timer = "off"

\* line 126: the call starts its first getConfig
Enter(c) ==
  /\ gpc[c] = "idle"
  /\ gpc' = [gpc EXCEPT ![c] = "getConfig"]
  /\ UNCHANGED <<cliVars, hookVars, releaseVars, mergeVars, originDefault, writing, got,
                 hasSetDefaultBranch, timer>>

(* lines 126-135: the first getConfig has read the config.  A value is
   returned, the first time with a refresh scheduled; without a value the
   call goes on to setConfig and starts `git remote show origin`. *)
Config(c) ==
  /\ gpc[c] = "getConfig"
  /\ IF originDefault # ""
     THEN /\ gpc' = [gpc EXCEPT ![c] = "returned"]
          /\ got' = [got EXCEPT ![c] = originDefault]
          /\ hasSetDefaultBranch' = TRUE
          /\ timer' = IF hasSetDefaultBranch THEN timer ELSE "armed"
     ELSE /\ gpc' = [gpc EXCEPT ![c] = "setConfig"]
          /\ UNCHANGED <<got, hasSetDefaultBranch, timer>>
  /\ UNCHANGED <<cliVars, hookVars, releaseVars, mergeVars, originDefault, writing>>

(* lines 118-122 and 135-136: `git remote show origin` has ended; the write
   is started with exec and not awaited, so setConfig returns and the second
   getConfig is started while the write runs. *)
SetConfig(c) ==
  /\ gpc[c] = "setConfig"
  /\ writing' = writing + 1
  /\ gpc' = [gpc EXCEPT ![c] = "readBack"]
  /\ UNCHANGED <<cliVars, hookVars, releaseVars, mergeVars, originDefault, got, hasSetDefaultBranch,
                 timer>>

\* a `git config --replace-all origin.default <branch>` process has written
Written ==
  /\ writing > 0
  /\ writing' = writing - 1
  /\ originDefault' = RemoteHead
  /\ UNCHANGED <<cliVars, hookVars, releaseVars, mergeVars, gpc, got, hasSetDefaultBranch, timer>>

\* line 136: the second getConfig has read the config, which is returned
ReadBack(c) ==
  /\ gpc[c] = "readBack"
  /\ gpc' = [gpc EXCEPT ![c] = "returned"]
  /\ got' = [got EXCEPT ![c] = originDefault]
  /\ UNCHANGED <<cliVars, hookVars, releaseVars, mergeVars, originDefault, writing,
                 hasSetDefaultBranch, timer>>

\* line 130: the timeout runs setConfig, which starts a write as well
Refresh ==
  /\ timer = "armed"
  /\ timer' = "fired"
  /\ writing' = writing + 1
  /\ UNCHANGED <<cliVars, hookVars, releaseVars, mergeVars, originDefault, gpc, got,
                 hasSetDefaultBranch>>

NextBranch ==
  \/ \E c \in Callers : Enter(c)
  \/ \E c \in Callers : Config(c)
  \/ \E c \in Callers : SetConfig(c)
  \/ Written
  \/ \E c \in Callers : ReadBack(c)
  \/ Refresh

SpecBranch == InitBranch /\ [][NextBranch]_vars

----------------------------------------------------------------------------
(* The on_release workflow.  A version is a triple
   <<major, minor, patch>>; a milestone title is a version or no version. *)

MaxMilestones == 2

\* semver.inc(version, changelevel), line 155
Inc(v, changelevel) ==
  CASE changelevel = "patch" -> <<v[1], v[2], v[3] + 1>>
    [] changelevel = "minor" -> <<v[1], v[2] + 1, 0>>
    [] changelevel = "major" -> <<v[1] + 1, 0, 0>>

\* semver.lt(a, b), line 180
Lt(a, b) ==
  \/ a[1] < b[1]
  \/ a[1] = b[1] /\ a[2] < b[2]
  \/ a[1] = b[1] /\ a[2] = b[2] /\ a[3] < b[3]

\* semver.eq(a, b), line 220
Eq(a, b) == a = b

SemverTitle(v) == [semver |-> TRUE, v |-> v]

\* a title such as "Backlog", for which semver.valid is null
PlainTitle == [semver |-> FALSE, v |-> <<0, 0, 0>>]

\* getVersion(), lines 258-268: the version released
Version == <<0, 1, 0>>

ChangeLevels == {"patch", "minor", "major"}

Titles ==
  { SemverTitle(<<0, 0, 1>>), SemverTitle(<<0, 0, 2>>), SemverTitle(Version),
    SemverTitle(Inc(Version, "patch")), PlainTitle }

\* a milestone without issues, or with one issue that is no pull request
Milestones == [title : Titles, issues : {0, 1}]

\* the open milestones of a repository: their titles differ
OpenMilestones ==
  { s \in UNION { [1..n -> Milestones] : n \in 0..MaxMilestones } :
      \A i, j \in DOMAIN s : i # j => s[i].title # s[j].title }

\* lines 178-181, as positions in the list fetched
MilestonesToDelete ==
  LET Older(k) == snapshot[k].title.semver /\ Lt(snapshot[k].title.v, Version)
  IN  SelectSeq([k \in 1..Len(snapshot) |-> k], Older)

\* lines 218-221, as positions in the list fetched
CurrentMilestones ==
  { k \in 1..Len(snapshot) :
      snapshot[k].title.semver /\ Eq(snapshot[k].title.v, Version) }

InitRelease ==
  /\ NoCli
  /\ NoHook
  /\ NoBranch
  /\ NoMerge
  /\ rpc = "start"
  /\ snapshot \in OpenMilestones
  /\ mstate = [k \in 1..Len(snapshot) |-> "open"]
  /\ issueIn = [k \in 1..Len(snapshot) |->
                  IF snapshot[k].issues = 0 THEN "none" ELSE "own"]
  /\ nextLevels = {}
  /\ ri = 0
  /\ closeFailed = {}

otherVars == <<cliVars, hookVars, branchVars, mergeVars>>

\* lines 149-150: the version and the open milestones, or a request that fails
Fetch ==
  /\ rpc = "start"
  /\ rpc' \in {"create", "thrown"}
  /\ UNCHANGED <<otherVars, snapshot, mstate, issueIn, nextLevels, ri,
                 closeFailed>>

(* lines 153-175: for each change level the milestone of the next version is
   found in the list or created; a creation that fails leaves the level
   without one *)
CreateNext ==
  /\ rpc = "create"
  /\ LET found == { l \in ChangeLevels :
                      \E k \in 1..Len(snapshot) :
                        snapshot[k].title = SemverTitle(Inc(Version, l)) }
     IN  \E made \in SUBSET (ChangeLevels \ found) :
           nextLevels' = found \cup made
  /\ rpc' = "delete"
  /\ ri' = 1
  /\ UNCHANGED <<otherVars, snapshot, mstate, issueIn, closeFailed>>

(* lines 182-236: one round of the loop over milestonesToDelete.  listed,
   moved and deleted say whether the request for the issues, for moving the
   issue and for deleting the milestone succeed; shut is the set of current
   milestones whose closing request succeeds.  The closing block of lines
   217-235 stands inside the loop, after the try statement: the `continue`
   of line 187 passes it by, a caught exception does not. *)
Round(listed, moved, deleted, shut) ==
  /\ rpc = "delete"
  /\ ri <= Len(MilestonesToDelete)
  /\ shut \subseteq CurrentMilestones
  /\ LET m       == MilestonesToDelete[ri]
         empty   == snapshot[m].issues = 0
         hasNext == "patch" \in nextLevels
         isMoved == ~empty /\ listed /\ hasNext /\ moved
         atEnd   == empty \/ (listed /\ (hasNext => moved))
         gone    == atEnd /\ deleted
         closes  == ~(empty /\ deleted)
     IN  /\ mstate' = [k \in 1..Len(snapshot) |->
                         IF k = m /\ gone THEN "deleted"
                         ELSE IF closes /\ k \in shut THEN "closed"
                         ELSE mstate[k]]
         /\ issueIn' = [issueIn EXCEPT ![m] =
                          IF isMoved THEN "next"
                          ELSE IF gone /\ ~empty THEN "lost" ELSE @]
         /\ closeFailed' = IF closes
                           THEN closeFailed \cup (CurrentMilestones \ shut)
                           ELSE closeFailed
  /\ ri' = ri + 1
  /\ UNCHANGED <<otherVars, rpc, snapshot, nextLevels>>

\* line 237: the loop has ended
Return ==
  /\ rpc = "delete"
  /\ ri > Len(MilestonesToDelete)
  /\ rpc' = "done"
  /\ UNCHANGED <<otherVars, snapshot, mstate, issueIn, nextLevels, ri,
                 closeFailed>>

NextRelease ==
  \/ Fetch
  \/ CreateNext
  \/ \E listed, moved, deleted \in BOOLEAN, shut \in SUBSET (1..MaxMilestones) :
       Round(listed, moved, deleted, shut)
  \/ Return

SpecRelease == InitRelease /\ [][NextRelease]_vars

----------------------------------------------------------------------------
(* The on_pull_request_merge workflow, run up to MaxRuns times one after the
   other for pull requests of the same package version *)

MaxRuns == 2

\* String.prototype.endsWith
EndsWith(s, suffix) ==
  /\ Len(suffix) <= Len(s)
  /\ SubSeq(s, Len(s) - Len(suffix) + 1, Len(s)) = suffix

\* line 30: pullRequest.head.ref.endsWith('-release')
isRelease(ref) == EndsWith(ref, <<Dash>> \o Release)

\* packageJson.version, line 44
PackageVersion == <<"0", ".", "1", ".", "0">>

\* line 48: the tag a release is looked up by, `v${version}`
FoundTag(version) == <<"v">> \o version

\* line 115: the tag a release is created with, `${version}`
CreatedTag(version) == version

HeadRefs ==
  { Join(<<<<"a", "b">>, Minor, Release>>),
    Join(<<<<"a", "b">>, Patch, Release>>),
    Join(<<<<"a", "b">>, Minor, <<"1", "2">>>>),
    Join(<<Release, <<"a", "b">>>>),
    <<"a", "b", "-", "p">> \o Release }

\* the releases of the repository before the first run
ReleasesBefore ==
  { <<>>,
    <<[tag |-> <<"v", "0", ".", "0", ".", "9">>, draft |-> FALSE]>>,
    <<[tag |-> FoundTag(PackageVersion), draft |-> TRUE]>>,
    <<[tag |-> FoundTag(PackageVersion), draft |-> FALSE]>> }

\* the repository takes a tag for a release unless a published release has it
TagFree(tag, except) ==
  \A k \in 1..Len(releases) :
    k = except \/ releases[k].draft \/ releases[k].tag # tag

InitMerge ==
  /\ NoCli
  /\ NoHook
  /\ NoBranch
  /\ NoRelease
  /\ wpc = "ready"
  /\ headRef \in HeadRefs
  /\ releases \in ReleasesBefore
  /\ target = 0
  /\ runs = 0
  /\ created = 0
  /\ published = 0

apartVars == <<cliVars, hookVars, branchVars, releaseVars>>

\* lines 28-34: a run starts; it ends at once when the branch is no release
Merge ==
  /\ wpc \in {"ready", "done", "thrown"}
  /\ runs < MaxRuns
  /\ runs' = runs + 1
  /\ wpc' = IF isRelease(headRef) THEN "onRelease" ELSE "done"
  /\ target' = 0
  /\ UNCHANGED <<apartVars, headRef, releases, created, published>>

(* lines 41-49 and 88-124: the release with the tag looked for, or else the
   one createRelease makes as a draft; a published release ends the run.
   Each request may fail, which ends the run with the exception. *)
FindOrCreate ==
  /\ wpc = "onRelease"
  /\ LET hits == { k \in 1..Len(releases) :
                     releases[k].tag = FoundTag(PackageVersion) }
         hit  == CHOOSE k \in hits : \A h \in hits : k <= h
     IN  \/ /\ wpc' = "thrown"
            /\ UNCHANGED <<releases, target, created>>
         \/ /\ hits # {}
            /\ target' = hit
            /\ wpc' = IF releases[hit].draft = FALSE THEN "done" ELSE "publish"
            /\ UNCHANGED <<releases, created>>
         \/ /\ hits = {}
            /\ TagFree(CreatedTag(PackageVersion), 0)
            /\ releases' = Append(releases, [tag |-> CreatedTag(PackageVersion),
                                             draft |-> TRUE])
            /\ target' = Len(releases) + 1
            /\ created' = created + 1
            /\ wpc' = "publish"
  /\ UNCHANGED <<apartVars, headRef, runs, published>>

\* lines 51-58: the release is published, or the request fails
Publish ==
  /\ wpc = "publish"
  /\ \/ /\ TagFree(releases[target].tag, target)
        /\ releases' = [releases EXCEPT ![target].draft = FALSE]
        /\ published' = published + 1
        /\ wpc' = "dispatch"
     \/ /\ wpc' = "thrown"
        /\ UNCHANGED <<releases, published>>
  /\ UNCHANGED <<apartVars, headRef, target, runs, created>>

(* lines 62-79: the workflows are listed and those ending with on_release.yml
   dispatched; a dispatch that fails is logged, the listing may throw *)
Dispatch ==
  /\ wpc = "dispatch"
  /\ wpc' \in {"done", "thrown"}
  /\ UNCHANGED <<apartVars, headRef, releases, target, runs, created,
                 published>>

NextMerge ==
  \/ Merge
  \/ FindOrCreate
  \/ Publish
  \/ Dispatch

SpecMerge == InitMerge /\ [][NextMerge]_vars

----------------------------------------------------------------------------
(* Vocabulary of the properties, stated without the operators of the model *)

Names(opts) == [i \in 1..Len(opts) |-> opts[i].name]

\* the lowercased name contains the (lowercase) text f at offset i
ContainsAt(name, f, i) ==
  /\ i + Len(f) <= Len(name)
  /\ \A j \in 1..Len(f) : Lower(name[i + j]) = f[j]

ContainsCI(name, f) == \E i \in 0..Len(name) : ContainsAt(name, f, i)

StartsCI(name, f) == ContainsAt(name, f, 0)

Matching(f) == { a \in DOMAIN options : ContainsCI(options[a].name, f) }

OptionMode == Len(options) > 0

MarkedRows == { i \in DOMAIN frame.rows : frame.rows[i].marked }

----------------------------------------------------------------------------
(* C1: once an option prompt has been submitted (real return key or injected
   submit), askQuestion returns the value field of
   filteredOptions[selectedIndex], both taken as they stand at submission
   (neither submit changes them). *)
C1_SubmitYieldsSelection ==
  (OptionMode /\ pc = "done") =>
     response = options[filteredOptions[selectedOptionIndex + 1]].value

\* a submit on the second row of a filtered list that differs from the original
C1_Witness ==
  /\ pc = "done"
  /\ filter = <<"a", "p">>
  /\ Names(options) = <<Banana, Apple, Grape>>
  /\ selectedOptionIndex = 1
  /\ response = Grape

(* C2: after k injected `down` commands from the initial state (no filter
   typed), option number k mod n of the original list is selected, it is the
   one row of the frame that carries the selection glyph, and a following
   submit returns its value. *)
C2_DownsSelectKModN ==
  (OptionMode /\ onlyDowns) =>
     LET n == Len(options)
         k == downs % n
     IN  /\ selectedOptionIndex = k
         /\ filteredOptions[k + 1] = k + 1
         /\ MarkedRows = {k + 1}
         /\ frame.rows[k + 1].name = options[k + 1].name
         /\ pc = "done" => response = options[k + 1].value

\* [Apple, Banana]: three injected downs (one wrap) then submit yields Banana
C2_Witness ==
  /\ pc = "done"
  /\ onlyDowns
  /\ downs = 3
  /\ Names(options) = <<Apple, Banana>>
  /\ response = Banana

RECURSIVE Times(_, _, _, _)
\* selectedIndex after k consecutive `down` (dir = 1) or `up` (dir = -1) events
Times(dir, k, sel, n) ==
  IF k = 0 THEN sel
  ELSE Times(dir, k - 1, IF dir = 1 THEN down(sel, n) ELSE up(sel, n), n)

(* C3: wraparound.  In every state of the prompt, with n the length of the
   filtered list, n consecutive `down` events bring selectedIndex back to its
   value, and so do n consecutive `up` events; `up` at 0 gives n-1 and `down`
   at n-1 gives 0. *)
C3_Wraparound ==
  (OptionMode /\ pc = "prompt") =>
     LET n == Len(filteredOptions)
     IN  /\ Times(1, n, selectedOptionIndex, n) = selectedOptionIndex
         /\ Times(-1, n, selectedOptionIndex, n) = selectedOptionIndex
         /\ up(0, n) = n - 1
         /\ down(n - 1, n) = 0

\* the selection sits on the last row of a filtered list shorter than the original
C3_Witness ==
  /\ pc = "prompt"
  /\ filter # <<>>
  /\ Len(filteredOptions) = 2
  /\ Len(options) = 3
  /\ selectedOptionIndex = 1

(* C4: in every state of an option prompt the filtered list is non-empty and
   0 <= selectedIndex < filteredOptions.length. *)
C4_SelectionInRange ==
  OptionMode =>
     /\ Len(filteredOptions) >= 1
     /\ 0 <= selectedOptionIndex
     /\ selectedOptionIndex < Len(filteredOptions)

\* navigation, scrolling and a filter edit all happened; selection on the last row
C4_Witness ==
  /\ pc = "prompt"
  /\ questionIndex > 0
  /\ filter = <<"p">>
  /\ Len(filteredOptions) < Len(options)
  /\ selectedOptionIndex = Len(filteredOptions) - 1
  /\ selectedOptionIndex > 0

(* C5: for a non-empty filter text that matches at least one option, the
   filtered list holds exactly the options whose lowercased name contains the
   text, each once. *)
C5_FilterExactlyMatching ==
  (OptionMode /\ filter # <<>> /\ Matching(filter) # {}) =>
     /\ { filteredOptions[i] : i \in DOMAIN filteredOptions } = Matching(filter)
     /\ Len(filteredOptions) = Cardinality(Matching(filter))

\* Apple, Banana, Grape filtered by "ap": Apple and Grape, Banana excluded
C5_Witness ==
  /\ pc = "prompt"
  /\ Names(options) = <<Apple, Banana, Grape>>
  /\ filter = <<"a", "p">>
  /\ filteredOptions = <<1, 3>>

(* C6: start-before-contains.  For a non-empty filter text, an option whose
   lowercased name starts with it stands before every matching option whose
   name only contains it, whatever their original order. *)
C6_StartBeforeContains ==
  (OptionMode /\ filter # <<>>) =>
     \A i, j \in DOMAIN filteredOptions :
        LET A == options[filteredOptions[i]].name
            B == options[filteredOptions[j]].name
        IN  (StartsCI(A, filter) /\ ContainsCI(B, filter) /\ ~StartsCI(B, filter))
               => i < j

\* a starting option was moved in front of a containing one that came first
C6_Witness ==
  /\ pc = "prompt"
  /\ filter # <<>>
  /\ \E i, j \in DOMAIN filteredOptions :
        /\ i < j
        /\ filteredOptions[i] > filteredOptions[j]
        /\ StartsCI(options[filteredOptions[i]].name, filter)
        /\ ~StartsCI(options[filteredOptions[j]].name, filter)

\* a and b both start with f, or both contain f without starting with it
SameRank(a, b, f) ==
  /\ ContainsCI(options[a].name, f)
  /\ ContainsCI(options[b].name, f)
  /\ StartsCI(options[a].name, f) <=> StartsCI(options[b].name, f)

(* C7: stable tie-break.  For a non-empty filter text, two matching options
   that both start with it, or both only contain it, stand in the filtered
   list in their original relative order. *)
C7_StableTieBreak ==
  (OptionMode /\ filter # <<>>) =>
     \A i, j \in DOMAIN filteredOptions :
        (i < j /\ SameRank(filteredOptions[i], filteredOptions[j], filter))
           => filteredOptions[i] < filteredOptions[j]

(* C8: fallback law.  When no option name contains the filter text, the
   filtered list is the full original list in original order. *)
C8_FallbackToFullList ==
  (OptionMode /\ Matching(filter) = {}) =>
     filteredOptions = [i \in 1..Len(options) |-> i]

\* a filter text no option contains, on a list of three options
C8_Witness ==
  /\ pc = "prompt"
  /\ Len(options) = 3
  /\ filter = <<"p", "a">>
  /\ Matching(filter) = {}
  /\ Len(filteredOptions) = 3

(* C9: free-text mode.  While the prompt waits, every line read so far was
   empty, nothing was returned and the question stands redrawn; it has
   terminated exactly when a non-empty line was read, and that line is
   returned verbatim. *)
C9_EmptyAnswerRejected ==
  (~OptionMode) =>
     /\ pc \in {"free", "done"}
     /\ pc = "free" => (answer = <<>> /\ response = NoValue
                          /\ frame = QuestionFrame(qLen))
     /\ pc = "done" => (answer # <<>> /\ response = answer)

\* two empty lines, each followed by a redraw, then "P" is returned as typed
C9_Witness ==
  /\ ~OptionMode
  /\ pc = "done"
  /\ draws = 3
  /\ response = <<"P">>

\* positions of the truthy entries of the options argument ('' is the falsy one)
TruthyAt == { i \in DOMAIN argOptions : argOptions[i] # StringEntry(<<>>) }

\* position in the argument of the k-th truthy entry
KthTruthy(k) ==
  CHOOSE i \in TruthyAt : Cardinality({ j \in TruthyAt : j < i }) = k - 1

(* C10: falsy entries of the options argument are discarded first: option
   number k is the k-th truthy entry, the question window is computed from
   the number of truthy entries, no frame row shows a falsy entry, the value
   returned is that of a truthy entry, and with no truthy entry the call runs
   the free-text loop. *)
C10_FalsyDiscarded ==
  /\ Len(options) = Cardinality(TruthyAt)
  /\ \A k \in DOMAIN options :
        /\ options[k].name = argOptions[KthTruthy(k)].name
        /\ options[k].value = argOptions[KthTruthy(k)].value
  /\ \A r \in DOMAIN frame.rows :
        \E i \in TruthyAt : frame.rows[r].name = argOptions[i].name
  /\ TruthyAt # {} =>
        /\ pc \in {"prompt", "done"}
        /\ questionRows = Max(3, TermRows - Min(12, Cardinality(TruthyAt) + 4))
        /\ Len(frame.rows) = Min(8, Len(filteredOptions))
        /\ pc = "done" => \E i \in TruthyAt : response = argOptions[i].value
  /\ TruthyAt = {} =>
        /\ pc \in {"free", "done"}
        /\ frame = QuestionFrame(qLen)
        /\ pc = "done" => response = answer

\* ['', Banana, Apple]: the second option, Apple, is selected and returned
C10_Witness ==
  /\ pc = "done"
  /\ Len(argOptions) = 3
  /\ argOptions[1] = StringEntry(<<>>)
  /\ Names(options) = <<Banana, Apple>>
  /\ selectedOptionIndex = 1
  /\ filter = <<>>
  /\ response = Apple

----------------------------------------------------------------------------
(* The test channel *)

NavKeys == {"up", "down", "pageup", "pagedown", "escape"}

\* the program state a real key of that name leaves, and the frame drawn of it
RealKeyThenRedraw(name) ==
  LET st == eventListener(name, ttyWrite(name, line))
  IN  /\ selectedOptionIndex' = st.sel
      /\ questionIndex' = st.qi
      /\ filter' = st.filter
      /\ filteredOptions' = st.filtered
      /\ line' = st.line
      /\ frame' = getPrompt(qLen, questionRows, scrollbar, questionIndex',
                            filter', options, filteredOptions',
                            selectedOptionIndex')
      /\ UNCHANGED <<pc, response, answer>>

(* C11: an injected keypress command naming up, down, pageup, pagedown or
   escape leaves the prompt in the state the real key of that name leaves it
   in, and the frame on the terminal is the frame of that state. *)
C11_InjectedKeyAsReal ==
  [][last' = "keypress" =>
        \A name \in NavKeys : InjectKeypress(name) => RealKeyThenRedraw(name)]_vars

\* injected pagedown and two injected downs: the question scrolled one line,
\* the third of three options marked
C11_Witness ==
  /\ last = "keypress"
  /\ pc = "prompt"
  /\ questionIndex = 1
  /\ selectedOptionIndex = 2
  /\ frame.question = <<2, 3, 4>>
  /\ MarkedRows = {3}

(* C12: a return key, real or injected as keypress:return, ends the prompt
   and yields the value of the selected option. *)
C12_ReturnTerminates ==
  [][(KeyReturn \/ InjectKeypress("return")) =>
        /\ pc' = "done"
        /\ response' = options[filteredOptions[selectedOptionIndex + 1]].value]_vars

(* C13: after an injected set_line the filter is the lower-cased line, the
   filtered list is the one typing that line produces, and the selection is
   the first entry. *)
C13_SetLineAsTyped ==
  last = "set_line" =>
    /\ filter = ToLowerCase(line)
    /\ filteredOptions = FilterOptions(options, ToLowerCase(line))
    /\ selectedOptionIndex = 0

\* the chunk does not start with the sentinel, or names no known command
Foreign(d) ==
  \/ d[1] # Sentinel
  \/ Len(d) < 2
  \/ d[2] \notin {"keypress", "set_line", "submit"}

(* C14: data that does not start with the sentinel, or that names a command
   other than keypress, set_line and submit, changes nothing of the prompt:
   not the selection, the filter, the scroll offset, the edit buffer or the
   frame, and the prompt stays open. *)
C14_ForeignDataIgnored ==
  [][last' \notin {"key", "line"} =>
        \A d \in DataPool :
          (Foreign(d) /\ OnData(d)) =>
              UNCHANGED <<selectedOptionIndex, questionIndex, filter,
                          filteredOptions, line, frame, pc, response, answer>>]_vars

\* a filter typed, the second match selected, then a chunk that is ignored
C14_Witness ==
  /\ last = "ignored"
  /\ pc = "prompt"
  /\ filter = <<"a">>
  /\ selectedOptionIndex = 1
  /\ MarkedRows = {2}

----------------------------------------------------------------------------
(* The scratch file *)

\* no cleanup listener of the current call is registered
Deregistered == \A e \in Events : call \notin handlers[e]

(* C15: the menu answer abort ends askFileInput with the result false and
   the scratch file removed, whatever rounds went before. *)
C15_AbortReturnsFalse ==
  task = "abort" =>
    /\ fpc = "returned"
    /\ result = "false"
    /\ ~fileExists

\* two rounds of the editor, then abort
C15_Witness ==
  /\ task = "abort"
  /\ rounds = MaxRounds
  /\ result = "false"
  /\ fpc = "returned"
  /\ cleanupRuns = 1

(* C16: continue with the file holding the template (or missing, and written
   anew) asks for confirmation instead of returning; an answer other than Yes
   leads back to the menu with the file and the listeners as they are; Yes
   returns the template and removes the file. *)
C16_UnmodifiedNeedsConfirmation ==
  [][/\ (MenuChoice("continue") /\ (~fileExists \/ fileContent = "template"))
          => (fpc' = "confirm" /\ fileExists')
     /\ Confirm("No")
          => (fpc' = "menu" /\ UNCHANGED <<fileExists, handlers, result>>)
     /\ Confirm("Yes")
          => (fpc' = "returned" /\ result' = "template" /\ ~fileExists')]_vars

\* continue, No, continue, Yes
C16_Witness ==
  /\ task = "Yes"
  /\ rounds = 2
  /\ fpc = "returned"
  /\ result = "template"
  /\ ~fileExists

(* C17: cleanup is idempotent and deregisters itself: once it has run, no
   listener of the call is registered on any of the four events; a second run
   raises no error and changes nothing; after a completed call no listener is
   left, so the number registered is the number before the first call. *)
C17_CleanupIdempotent ==
  /\ cleanupRuns > 0 => Deregistered
  /\ LET once == cleanup(call, fileExists, handlers)
         twice == cleanup(call, once.exists, once.handlers)
     IN  /\ ~once.threw
         /\ ~twice.threw
         /\ twice = once
         /\ \A e \in Events : call \notin once.handlers[e]
  /\ fpc = "returned" => \A e \in Events : handlers[e] = {}

\* the second call has returned after its cleanup ran twice: by a signal,
\* then by the flow
C17_Witness ==
  /\ fpc = "returned"
  /\ call = 2
  /\ cleanupRuns = 2
  /\ proc = "running"

(* C18: whenever the process has ended by a signal or by its normal exit,
   the scratch file does not exist, also when an earlier signal has run the
   cleanup and continue has written the file anew. *)
C18_NoResidueAfterTermination ==
  proc \in {"killed", "exited"} => ~fileExists

(* C19: when askFileInput is left by an exception, the scratch file has
   been removed and the cleanup listeners are deregistered. *)
C19_ReleaseOnException ==
  fpc = "thrown" => (~fileExists /\ Deregistered)

(* C28: continue with the file on disk and its content other than the
   template ends the call at once, without a confirmation: the result is the
   content of the file, and the file is removed. *)
C28_ModifiedReturnsContent ==
  [][(task' = "continue" /\ MenuChoice("continue")
        /\ fileExists /\ fileContent # "template") =>
          /\ fpc' = "returned"
          /\ result' = fileContent
          /\ ~fileExists'
          /\ Deregistered']_vars

\* the editor, a change saved, continue
C28_Witness ==
  /\ task = "continue"
  /\ fpc = "returned"
  /\ result = "edited"
  /\ rounds = 2
  /\ ~fileExists
  /\ cleanupRuns = 1

(* C29: continue with the file gone is no failure: the file is written anew
   with the template, the result is the template, and the confirmation for
   an unmodified template is asked. *)
C29_MissingFileRecreated ==
  [][(task' = "continue" /\ MenuChoice("continue") /\ ~fileExists) =>
          /\ fpc' = "confirm"
          /\ fileExists'
          /\ fileContent' = "template"
          /\ result' = "template"]_vars

\* a signal ran the cleanup, which removed the file; then continue: the
\* confirmation waits with the template on disk again
C29_Witness ==
  /\ task = "continue"
  /\ fpc = "confirm"
  /\ cleanupRuns = 1
  /\ Deregistered
  /\ fileExists
  /\ fileContent = "template"
  /\ result = "template"

(* C30: the menu answer that opens the editor never ends the call: the menu
   is asked again, with the scratch file and the cleanup listeners as they
   were, for any number of editor rounds in a row. *)
C30_EditorKeepsFlow ==
  [][(task' = "openEditor" /\ (MenuChoice("openEditor") \/ Throw("execSync"))) =>
          /\ fpc' = "menu"
          /\ UNCHANGED <<fileExists, fileContent, handlers, result>>]_vars

(* C20: once the call has returned, no later key and no later injected
   command changes the selection, the scroll offset, the filter or the
   filtered list of the returned prompt, or makes it write a frame. *)
C20_FinishedPromptFrozen ==
  [][pc = "done" =>
        UNCHANGED <<selectedOptionIndex, questionIndex, filter,
                    filteredOptions, frame, response>>]_vars

----------------------------------------------------------------------------
(* The layout *)

(* C21: for a terminal of at least 3 rows and any number of options the
   question window has at least 3 rows and at most as many as the terminal. *)
C21_ViewportBound ==
  pc = "laid" => (3 <= questionRows /\ questionRows <= stdoutRows)

\* a terminal of 3 rows and 9 options: the floor of 3 rows applies
C21_Witness ==
  /\ pc = "laid"
  /\ stdoutRows = 3
  /\ optionCount = MaxCount
  /\ questionRows = 3

----------------------------------------------------------------------------
(* The task menu *)

(* C22: once the prompt of the task menu has returned the exit task, the
   task runs, no further prompt is started, and the process ends with exit
   code 0. *)
C22_ExitEndsProcess ==
  /\ [][taskName = "exit" => (prompts' = prompts /\ taskName' = "exit")]_vars
  /\ [](taskName = "exit" => mpc \in {"task", "returned", "ended"})
  /\ (taskName = "exit" ~> (mpc = "ended" /\ exitCode = "0"))

\* another task first, which came back to the menu; then exit
C22_Witness ==
  /\ taskName = "exit"
  /\ mpc = "ended"
  /\ exitCode = "0"
  /\ prompts = 2

----------------------------------------------------------------------------
(* Key events *)

(* C23: whenever the filter text is empty the filtered list is the whole
   original list in its original order, whatever edits went before; and the
   original list stays the list the call was given, normalised. *)
C23_EmptyFilterFullList ==
  /\ filter = <<>> => filteredOptions = [i \in 1..Len(options) |-> i]
  /\ options = FormatOptions(argOptions)

\* a filter that had narrowed the list to two options has been deleted again
C23_Witness ==
  /\ key = "edit"
  /\ filter = <<>>
  /\ before.filter # <<>>
  /\ Len(before.filtered) = 2
  /\ filteredOptions = <<1, 2, 3>>

(* C24: an escape key does what setting the filter text to empty does: after
   it the edit buffer and the filter text are empty, the filtered list is the
   whole original list and the first option is selected. *)
C24_EscapeClearsFilter ==
  /\ key = "escape" =>
        /\ line = <<>>
        /\ filter = <<>>
        /\ filteredOptions = [i \in 1..Len(options) |-> i]
        /\ selectedOptionIndex = 0
  /\ pc = "prompt" => eventListener("escape", line) = eventListener("edit", <<>>)

\* escape found a filter that narrowed the list, its second entry selected
C24_Witness ==
  /\ key = "escape"
  /\ before.filter # <<>>
  /\ before.sel = 1
  /\ Len(before.filtered) < Len(options)
  /\ selectedOptionIndex = 0

\* the key recomputes the filtered list: it is not up or down, nor a pageup
\* or pagedown that scrolls
Recomputes(k) ==
  /\ k \notin {"none", "return", "up", "down"}
  /\ ~(scrollbar /\ k \in {"pageup", "pagedown"})

(* C25: after every key that recomputes the filtered list the first option
   is selected, also when the list comes out as it was. *)
C25_RecomputeSelectsFirst ==
  Recomputes(key) => selectedOptionIndex = 0

\* a character typed with the third option selected; all three options
\* match and keep their order
C25_Witness ==
  /\ key = "edit"
  /\ before.sel = 2
  /\ filter # <<>>
  /\ filteredOptions = before.filtered
  /\ selectedOptionIndex = 0

(* C26: when the question fits in its window, pageup and pagedown change
   neither the selection nor the filter text, the filtered list or the
   scroll offset. *)
C26_PageKeysNoOp ==
  (~scrollbar /\ key \in {"pageup", "pagedown"}) =>
    /\ selectedOptionIndex = before.sel
    /\ filter = before.filter
    /\ filteredOptions = before.filtered
    /\ questionIndex = before.qi

(* C27: the scroll offset is never below 0 and never above the number of
   question lines less the rows of the window (or 0, if that is negative). *)
C27_ScrollOffsetInRange ==
  /\ 0 <= questionIndex
  /\ questionIndex <= Max(0, qLen - questionRows)

\* pagedown at the last offset: the offset stays
C27_Witness ==
  /\ key = "pagedown"
  /\ scrollbar
  /\ before.qi = qLen - questionRows
  /\ questionIndex = qLen - questionRows
  /\ questionIndex > 1

----------------------------------------------------------------------------
(* Frames and resolution of one prompt *)

(* C31: after a real key event, an injected keypress or an injected set_line
   on an open option prompt, a frame has been written, and it is the frame of
   the state the event left. *)
C31_FrameAfterTransition ==
  (pc = "prompt" /\ last \in {"key", "keypress", "set_line"}) =>
      /\ wrote
      /\ frame = getPrompt(qLen, questionRows, scrollbar, questionIndex,
                           filter, options, filteredOptions,
                           selectedOptionIndex)

(* C37: the value askQuestion returns is the selection at the first return
   or submit; a further return or submit leaves it alone, and a key that
   arrives after the first changes nothing of the prompt. *)
C37_ResolvesOnce ==
  [][/\ (pc = "prompt" /\ pc' = "done") =>
            response' = options[filteredOptions[selectedOptionIndex + 1]].value
     /\ pc = "done" => (pc' = "done" /\ response' = response)
     /\ (pc = "done" /\ last' = "key") =>
            UNCHANGED <<selectedOptionIndex, questionIndex, filter,
                        filteredOptions, line, frame>>]_vars

\* a real return, then an injected down and an injected submit reach the
\* returned prompt: the value is still the one selected at the return
C37_Witness ==
  /\ pc = "done"
  /\ resolves = <<"return", "submit">>
  /\ selectedOptionIndex = 1
  /\ response = options[filteredOptions[1]].value
  /\ response # options[filteredOptions[selectedOptionIndex + 1]].value

----------------------------------------------------------------------------
(* The option window *)

(* C32: the option rows of a frame are the filtered options from
   max(0, selectedIndex - 4) on, eight at most, in their order; the selected
   option is among them and is the one row that is marked. *)
C32_WindowHoldsSelection ==
  pc = "prompt" =>
    LET anchor == Max(0, selectedOptionIndex - 4)
        shown  == Min(8, Len(filteredOptions) - anchor)
    IN  /\ Len(frame.rows) = shown
        /\ \A k \in 1..shown :
             frame.rows[k].name = options[filteredOptions[anchor + k]].name
        /\ MarkedRows = {selectedOptionIndex - anchor + 1}

\* the sixth of ten options selected: the window is full, starts at the
\* second option and marks its fifth row
C32_Witness ==
  /\ pc = "prompt"
  /\ key = "down"
  /\ Len(filteredOptions) = 10
  /\ selectedOptionIndex = 5
  /\ Len(frame.rows) = 8
  /\ frame.rows[1].name = options[2].name
  /\ MarkedRows = {5}

\* the rows a frame takes: question lines, the two rows of the scroll hint,
\* one row for each option shown
FrameRowCount ==
  Len(frame.question) + (IF frame.scrollHint THEN 2 ELSE 0) + Len(frame.rows)

(* C38: a frame of an option prompt has no more rows than the terminal. *)
C38_FrameFitsTerminal ==
  (pc = "prompt" /\ stdoutRows >= 3 /\ Len(options) >= 1) =>
      FrameRowCount <= stdoutRows

----------------------------------------------------------------------------
(* C39: while an askFileInput call is in flight and the process runs, the
   scratch file exists only with the call's cleanup registered for
   beforeExit, SIGINT, SIGQUIT and SIGTERM. *)
C39_FileOnlyWithHandlers ==
  (fpc \in {"menu", "confirm"} /\ proc = "running" /\ fileExists) =>
      \A e \in Events : call \in handlers[e]

----------------------------------------------------------------------------
(* The pre-commit hook *)

DashesOf(s) == { i \in 1..Len(s) : s[i] = Dash }

(* C35: the hook returns exactly for a branch name with two last dashes at
   i < j such that what follows j is a non-empty run of digits or the word
   release, what lies between i and j is major, minor or patch, and what
   precedes i is the git username up to case; for every other name it
   throws. *)
C35_BranchNameAccepted ==
  hook # "ready" =>
    /\ hook \in {"returned", "thrown"}
    /\ hook = "returned" <=>
         \E i, j \in DashesOf(branchName) :
           /\ i < j
           /\ \A k \in DashesOf(branchName) : k <= i \/ k = j
           /\ LET issue == SubSeq(branchName, j + 1, Len(branchName))
                  level == SubSeq(branchName, i + 1, j - 1)
                  lead  == SubSeq(branchName, 1, i - 1)
              IN  /\ \/ issue = <<"r", "e", "l", "e", "a", "s", "e">>
                     \/ /\ issue # <<>>
                        /\ \A k \in 1..Len(issue) : issue[k] \in Digits
                  /\ level \in { <<"m", "a", "j", "o", "r">>,
                                 <<"m", "i", "n", "o", "r">>,
                                 <<"p", "a", "t", "c", "h">> }
                  /\ ToLowerCase(lead) = ToLowerCase(gitUsername)

\* a username with a dash, written in another case in the branch name
C35_Witness ==
  /\ hook = "returned"
  /\ gitUsername = <<"A", "b", "-", "a", "b">>
  /\ branchName = <<"a", "b", "-", "A", "b", "-", "p", "a", "t", "c", "h",
                    "-", "1", "2">>

----------------------------------------------------------------------------
(* C36: a getDefaultBranch call that found no default branch in the config
   returns the branch it found on the remote; its write has ended when the
   config is read for the return value. *)
C36_ReturnsDiscoveredBranch ==
  \A c \in Callers : gpc[c] = "returned" => got[c] = RemoteHead

----------------------------------------------------------------------------
(* C33: when a run of the on_release workflow has ended, every milestone that
   was open with the released version as its title is closed, unless the
   request that closes it failed. *)
C33_CurrentMilestoneClosed ==
  rpc = "done" =>
    \A k \in 1..Len(snapshot) :
      (snapshot[k].title = [semver |-> TRUE, v |-> Version]) =>
          (mstate[k] = "closed" \/ k \in closeFailed)

----------------------------------------------------------------------------
\* the releases whose tag names the package version, with or without the v
NamingVersion ==
  { k \in 1..Len(releases) :
      releases[k].tag \in { PackageVersion, <<"v">> \o PackageVersion } }

(* C34: runs for a branch that is no release branch create and publish
   nothing; runs for a release branch create at most one release and publish
   at most once, and a release is created only when none names the version. *)
C34_ReleaseOnce ==
  /\ ~EndsWith(headRef, <<"-", "r", "e", "l", "e", "a", "s", "e">>) =>
        (created = 0 /\ published = 0)
  /\ created <= 1
  /\ published <= 1
  /\ created = 1 => Cardinality(NamingVersion) = 1

====
